---- MODULE Spec2Model ----
(***************************************************************************)
(* Model of app.py (Flight Delay & Cancellation Risk).                     *)
(*                                                                         *)
(* Probabilities handed to the risk blender are fixed-point numbers in     *)
(* hundredths (One = 1.0).  Texts are strings; lower-casing and substring  *)
(* tests are computed character by character.                              *)
(***************************************************************************)
EXTENDS Integers, Sequences, FiniteSets, TLC

(***************************************************************************)
(* Text helpers: str.lower(), `k in s`, str.strip(), str.replace()         *)
(***************************************************************************)
UpperAlphabet == "ABCDEFGHIJKLMNOPQRSTUVWXYZ"

LowerAlphabet == "abcdefghijklmnopqrstuvwxyz"

CharAt(s, i) == SubSeq(s, i, i)

LowerChar(c) ==
    IF \E i \in 1..Len(UpperAlphabet) : CharAt(UpperAlphabet, i) = c
    THEN CharAt(LowerAlphabet, CHOOSE i \in 1..Len(UpperAlphabet) : CharAt(UpperAlphabet, i) = c)
    ELSE c

RECURSIVE Lower(_)
Lower(s) ==
    IF Len(s) = 0 THEN ""
    ELSE LowerChar(CharAt(s, 1)) \o Lower(SubSeq(s, 2, Len(s)))

UpperChar(c) ==
    IF \E i \in 1..Len(LowerAlphabet) : CharAt(LowerAlphabet, i) = c
    THEN CharAt(UpperAlphabet, CHOOSE i \in 1..Len(LowerAlphabet) : CharAt(LowerAlphabet, i) = c)
    ELSE c

RECURSIVE Upper(_)
Upper(s) ==
    IF Len(s) = 0 THEN ""
    ELSE UpperChar(CharAt(s, 1)) \o Upper(SubSeq(s, 2, Len(s)))

\* Python's `sub in s` for a non-empty sub
Contains(sub, s) ==
    \E i \in 1..(Len(s) - Len(sub) + 1) : SubSeq(s, i, i + Len(sub) - 1) = sub

\* Python's None where a text is expected
NoneText == "<None>"

\* truth value of a text or None
Truthy(s) == s # NoneText /\ Len(s) > 0

\* str.replace(old, new) for one-character old and new
RECURSIVE Replace(_, _, _)
Replace(s, old, new) ==
    IF Len(s) = 0 THEN ""
    ELSE (IF CharAt(s, 1) = old THEN new ELSE CharAt(s, 1)) \o Replace(SubSeq(s, 2, Len(s)), old, new)

RECURSIVE LStrip(_)
LStrip(s) ==
    IF Len(s) > 0 /\ CharAt(s, 1) = " " THEN LStrip(SubSeq(s, 2, Len(s))) ELSE s

RECURSIVE RStrip(_)
RStrip(s) ==
    IF Len(s) > 0 /\ CharAt(s, Len(s)) = " " THEN RStrip(SubSeq(s, 1, Len(s) - 1)) ELSE s

\* str.strip()
Strip(s) == RStrip(LStrip(s))

\* the characters the model's texts use, in code-point order
CodePoints == " -./0123456789:<>ABCDEFGHIJKLMNOPQRSTUVWXYZ_abcdefghijklmnopqrstuvwxyz"

Ord(c) == CHOOSE i \in 1..Len(CodePoints) : CharAt(CodePoints, i) = c

\* Python's a < b on str
RECURSIVE StrLt(_, _)
StrLt(a, b) ==
    IF Len(b) = 0 THEN FALSE
    ELSE IF Len(a) = 0 THEN TRUE
    ELSE IF CharAt(a, 1) = CharAt(b, 1) THEN StrLt(SubSeq(a, 2, Len(a)), SubSeq(b, 2, Len(b)))
    ELSE Ord(CharAt(a, 1)) < Ord(CharAt(b, 1))

(***************************************************************************)
(* Numbers of the table: fixed point in tenths, or NaN                     *)
(***************************************************************************)
NaN == [nan |-> TRUE, v |-> 0]

Num(tenths) == [nan |-> FALSE, v |-> tenths]

Digits == "0123456789"

IsDigit(c) == \E i \in 1..Len(Digits) : CharAt(Digits, i) = c

DigitVal(c) == (CHOOSE i \in 1..Len(Digits) : CharAt(Digits, i) = c) - 1

AllDigits(s) == Len(s) > 0 /\ \A i \in 1..Len(s) : IsDigit(CharAt(s, i))

RECURSIVE DigitsVal(_)
DigitsVal(s) ==
    IF Len(s) = 0 THEN 0
    ELSE 10 * DigitsVal(SubSeq(s, 1, Len(s) - 1)) + DigitVal(CharAt(s, Len(s)))

\* an unsigned decimal with at most one fractional digit, in tenths; -1 if the
\* text is not one
UnsignedTenths(s) ==
    IF AllDigits(s) THEN 10 * DigitsVal(s)
    ELSE IF Len(s) >= 3 /\ CharAt(s, Len(s) - 1) = "."
            /\ AllDigits(SubSeq(s, 1, Len(s) - 2)) /\ IsDigit(CharAt(s, Len(s)))
         THEN 10 * DigitsVal(SubSeq(s, 1, Len(s) - 2)) + DigitVal(CharAt(s, Len(s)))
    ELSE -1

\* pd.to_numeric(cell, errors="coerce") of a CSV cell: its number, NaN for an
\* empty cell and for text that is no number
ToNumeric(cell) ==
    LET t   == Strip(cell)
        neg == Len(t) > 0 /\ CharAt(t, 1) = "-"
        u   == UnsignedTenths(IF neg THEN SubSeq(t, 2, Len(t)) ELSE t)
    IN  IF u < 0 THEN NaN
        ELSE Num(IF neg THEN 0 - u ELSE u)

\* .astype(int) of a float: truncation toward zero
AsInt(x) == IF x.v >= 0 THEN x.v \div 10 ELSE 0 - ((0 - x.v) \div 10)

(***************************************************************************)
(* The table: column resolution, cancellation normaliser, aggregator       *)
(***************************************************************************)
\* A CSV file: a header and rows of cells, all text; "" is an empty cell,
\* which read_csv loads as NaN
File(header, rows) == [present |-> TRUE, header |-> header, rows |-> rows]

NoFile == [present |-> FALSE, header |-> <<>>, rows |-> <<>>]

IsNull(cell) == cell = ""

\* the inline sample of load_csv_auto
SampleFile ==
    File(<<"carrier_name", "airport_name", "arr_flights", "arr_del15", "arr_delay", "year", "month", "cancellation_code">>,
         << <<"Delta Air Lines", "Richmond", "100", "20", "8.5", "2023", "6", "A">>,
            <<"United Airlines", "Richmond", "80", "10", "6.2", "2023", "6", "B">>,
            <<"Delta Air Lines", "Atlanta", "150", "25", "7.9", "2023", "6", "">>,
            <<"United Airlines", "Atlanta", "120", "18", "5.3", "2023", "6", "C">> >>)

\* one column name through standardize_cols
StandardizeName(name) == Replace(Replace(Lower(Strip(name)), " ", "_"), "-", "_")

SeqRange(q) == {q[i] : i \in 1..Len(q)}

\* pd.read_csv followed by standardize_cols: rows as maps from column name to cell
ReadCsv(file) ==
    LET names == [i \in 1..Len(file.header) |-> StandardizeName(file.header[i])]
    IN  [i \in 1..Len(file.rows) |->
            [c \in SeqRange(names) |->
                file.rows[i][CHOOSE j \in 1..Len(names) : names[j] = c]]]

\* the columns of a frame that has at least one row; the header otherwise
ColumnsOf(file) == {StandardizeName(file.header[i]) : i \in 1..Len(file.header)}

RECURSIVE resolve_from(_, _, _)
resolve_from(columns, candidates, i) ==
    IF i > Len(candidates) THEN NoneText
    ELSE IF candidates[i] \in columns THEN candidates[i]
    ELSE resolve_from(columns, candidates, i + 1)

\* resolve_one(df, candidates): the first candidate among the columns, or None
resolve_one(columns, candidates) == resolve_from(columns, candidates, 1)

\* resolve_one(...) or default
ResolveOr(columns, candidates, default) ==
    IF resolve_one(columns, candidates) = NoneText THEN default
    ELSE resolve_one(columns, candidates)

CARRIER_CANDIDATES == <<"carrier_name", "carrier", "op_unique_carrier_name", "op_carrier">>

AIRPORT_CANDIDATES == <<"airport_name", "dest_airport_name", "origin_airport_name", "airport", "dest", "origin">>

FLIGHTS_CANDIDATES == <<"arr_flights", "flights", "num_flights">>

DEL15_CANDIDATES == <<"arr_del15", "arr_del_15", "late_flights", "delayed_flights">>

DELAY_CANDIDATES == <<"arr_delay", "arrival_delay", "arrdelay", "arr_delay_minutes", "avg_arr_delay">>

YEAR_CANDIDATES == <<"year", "yr">>

MONTH_CANDIDATES == <<"month", "mnth">>

CANCEL_CANDIDATES == <<"cancelled", "canceled", "arr_cancelled", "arr_cancel", "cancelled_flights", "cancellations">>

\* lines 210-227: the resolved column names
ResolveColumns(columns) ==
    [carrier_col     |-> ResolveOr(columns, CARRIER_CANDIDATES, "carrier_name"),
     airport_col     |-> ResolveOr(columns, AIRPORT_CANDIDATES, "airport_name"),
     arr_flights_col |-> ResolveOr(columns, FLIGHTS_CANDIDATES, "arr_flights"),
     arr_del15_col   |-> ResolveOr(columns, DEL15_CANDIDATES, "arr_del15"),
     arr_delay_col   |-> ResolveOr(columns, DELAY_CANDIDATES, "arr_delay"),
     year_col        |-> resolve_one(columns, YEAR_CANDIDATES),
     month_col       |-> resolve_one(columns, MONTH_CANDIDATES),
     cancel_col      |-> resolve_one(columns, CANCEL_CANDIDATES),
     reason_col      |-> IF "cancellation_code" \in columns THEN "cancellation_code"
                         ELSE IF "cancellation_reason" \in columns THEN "cancellation_reason"
                         ELSE NoneText]

NoColumns ==
    [carrier_col |-> NoneText, airport_col |-> NoneText, arr_flights_col |-> NoneText,
     arr_del15_col |-> NoneText, arr_delay_col |-> NoneText, year_col |-> NoneText,
     month_col |-> NoneText, cancel_col |-> NoneText, reason_col |-> NoneText]

\* CANCEL_REASON_MAP lookup followed by fillna("Other/Unknown")
CancelReasonOfCode(code) ==
    CASE code = "A" -> "Carrier"
      [] code = "B" -> "Weather"
      [] code = "C" -> "NAS"
      [] code = "D" -> "Security"
      [] OTHER -> "Other/Unknown"

\* pd.to_numeric(cell, errors="coerce").fillna(0).astype(int)
CountFlag(cell) ==
    LET x == ToNumeric(cell) IN IF x.nan THEN 0 ELSE AsInt(x)

\* lines 232-237
CancelFlagOf(row, columns, cols) ==
    IF cols.cancel_col # NoneText /\ cols.cancel_col \in columns THEN CountFlag(row[cols.cancel_col])
    ELSE IF "cancellation_code" \in columns
         THEN (IF IsNull(row["cancellation_code"]) THEN 0 ELSE 1)
    ELSE 0

\* lines 239-244
CancelReasonOf(row, cols) ==
    IF cols.reason_col = "cancellation_code" THEN CancelReasonOfCode(row["cancellation_code"])
    ELSE IF cols.reason_col = "cancellation_reason"
         THEN (IF IsNull(row["cancellation_reason"]) THEN "Unknown" ELSE row["cancellation_reason"])
    ELSE "Unknown"

\* lines 231-244 on every row
WithCancelColumns(rows, columns, cols) ==
    [i \in 1..Len(rows) |->
        rows[i] @@ ("_cancel_flag" :> CancelFlagOf(rows[i], columns, cols))
                @@ ("_cancel_reason" :> CancelReasonOf(rows[i], cols))]

NumericColumns(columns, cols) ==
    {cols.arr_flights_col, cols.arr_del15_col, cols.arr_delay_col, cols.year_col, cols.month_col}
        \cap columns

\* lines 247-249 on every row
WithNumericColumns(rows, columns, cols) ==
    [i \in 1..Len(rows) |->
        [c \in DOMAIN rows[i] |->
            IF c \in NumericColumns(columns, cols) THEN ToNumeric(rows[i][c]) ELSE rows[i][c]]]

RequiredColumns(cols) ==
    {cols.carrier_col, cols.airport_col, cols.arr_flights_col, cols.arr_del15_col, cols.arr_delay_col}

RECURSIVE SelectRows(_, _)
SelectRows(rows, keep) ==
    IF Len(rows) = 0 THEN <<>>
    ELSE (IF keep[1] THEN <<rows[1]>> ELSE <<>>)
         \o SelectRows(Tail(rows), Tail(keep))

\* a row of the cleaned frame that dropna(subset=...) keeps
NoneMissing(row, cols) ==
    /\ ~IsNull(row[cols.carrier_col])
    /\ ~IsNull(row[cols.airport_col])
    /\ ~row[cols.arr_flights_col].nan
    /\ ~row[cols.arr_del15_col].nan
    /\ ~row[cols.arr_delay_col].nan

\* a bug: zero-flight rows let through
FlightsNonNegative(row, cols) == row[cols.arr_flights_col].v >= 0

\* df[arr_flights_col] > 0
FlightsPositive(row, cols) == row[cols.arr_flights_col].v > 0

\* lines 251-252
FilterRows(rows, cols) ==
    SelectRows(rows, [i \in 1..Len(rows) |-> NoneMissing(rows[i], cols) /\ FlightsPositive(rows[i], cols)])

PairLt(p, q) == StrLt(p[1], q[1]) \/ (p[1] = q[1] /\ StrLt(p[2], q[2]))

\* the elements of a set of (carrier, airport) pairs in ascending order
RECURSIVE SortedPairs(_)
SortedPairs(S) ==
    IF S = {} THEN <<>>
    ELSE LET m == CHOOSE x \in S : \A y \in S : y = x \/ PairLt(x, y)
         IN  <<m>> \o SortedPairs(S \ {m})

\* the group keys of groupby([carrier_col, airport_col]): rows with a null key
\* form no group
GroupKeys(rows, cols) ==
    {<<rows[i][cols.carrier_col], rows[i][cols.airport_col]>> :
        i \in {j \in 1..Len(rows) :
                ~IsNull(rows[j][cols.carrier_col]) /\ ~IsNull(rows[j][cols.airport_col])}}

GroupRows(rows, cols, key) ==
    SelectRows(rows, [i \in 1..Len(rows) |->
        rows[i][cols.carrier_col] = key[1] /\ rows[i][cols.airport_col] = key[2]])

\* "sum" of a column
RECURSIVE SumOf(_)
SumOf(values) ==
    IF Len(values) = 0 THEN 0 ELSE values[1] + SumOf(Tail(values))

Ratio(n, d) == [num |-> n, den |-> d]

\* lines 255-265: one row per group, in key order
Aggregate(rows, cols) ==
    LET keys == SortedPairs(GroupKeys(rows, cols))
        Flights(g) == [i \in 1..Len(g) |-> g[i][cols.arr_flights_col].v]
        Delayed(g) == [i \in 1..Len(g) |-> g[i][cols.arr_del15_col].v]
        Delay(g)   == [i \in 1..Len(g) |-> g[i][cols.arr_delay_col].v]
        Flag(g)    == [i \in 1..Len(g) |-> g[i]["_cancel_flag"]]
    IN  [k \in 1..Len(keys) |->
            LET g == GroupRows(rows, cols, keys[k])
            IN  [carrier            |-> keys[k][1],
                 airport            |-> keys[k][2],
                 total_flights      |-> SumOf(Flights(g)),
                 delayed_flights    |-> SumOf(Delayed(g)),
                 avg_delay          |-> Ratio(SumOf(Delay(g)), Len(g)),
                 canceled_flights   |-> SumOf(Flag(g)),
                 delay_probability  |-> Ratio(SumOf(Delayed(g)), SumOf(Flights(g))),
                 cancel_probability |-> Ratio(10 * SumOf(Flag(g)), SumOf(Flights(g)))]]

CountOf(values, x) == Cardinality({i \in 1..Len(values) : values[i] = x})

\* x.mode(): the most frequent values
Modes(values) ==
    {x \in SeqRange(values) : \A y \in SeqRange(values) : CountOf(values, y) <= CountOf(values, x)}

\* a tie-break the code does not have: the most frequent value met first
ModeFirstEncountered(values) ==
    IF Len(values) = 0 THEN "Unknown"
    ELSE values[CHOOSE i \in 1..Len(values) :
                    /\ values[i] \in Modes(values)
                    /\ \A j \in 1..(i - 1) : values[j] \notin Modes(values)]

\* x.mode().iat[0] if not x.mode().empty else "Unknown": Series.mode returns
\* the modes sorted, so the first is the smallest
ModeFirst(values) ==
    IF Len(values) = 0 THEN "Unknown"
    ELSE CHOOSE x \in Modes(values) : \A y \in Modes(values) : y = x \/ StrLt(x, y)

ReasonsOf(rows) == [i \in 1..Len(rows) |-> rows[i]["_cancel_reason"]]

\* a bug: the reasons taken from the filtered records only
ReasonSummaryOfFiltered(rows, cols) ==
    LET kept == FilterRows(rows, cols)
        keys == SortedPairs(GroupKeys(kept, cols))
    IN  [k \in 1..Len(keys) |->
            [carrier |-> keys[k][1], airport |-> keys[k][2],
             top_cancel_reason |-> ModeFirst(ReasonsOf(GroupRows(kept, cols, keys[k])))]]

\* lines 268-272 over the given frame
ReasonSummary(rows, cols) ==
    LET keys == SortedPairs(GroupKeys(rows, cols))
    IN  [k \in 1..Len(keys) |->
            [carrier |-> keys[k][1], airport |-> keys[k][2],
             top_cancel_reason |-> ModeFirst(ReasonsOf(GroupRows(rows, cols, keys[k])))]]

\* line 273: left merge on the two key columns; a summary row without a
\* match gets NaN
MergeReasons(summary, reasons) ==
    [k \in 1..Len(summary) |->
        summary[k] @@
        ("top_cancel_reason" :>
            IF \E j \in 1..Len(reasons) :
                    reasons[j].carrier = summary[k].carrier /\ reasons[j].airport = summary[k].airport
            THEN reasons[CHOOSE j \in 1..Len(reasons) :
                    reasons[j].carrier = summary[k].carrier /\ reasons[j].airport = summary[k].airport].top_cancel_reason
            ELSE "")]

(***************************************************************************)
(* Risk blender                                                            *)
(***************************************************************************)
\* 1.0 in hundredths
One == 100

GroundStopDelayInc == 35

GroundDelayDelayInc == 20

ReasonDelayInc == 10

PhaseDelayInc == 5

GroundStopCancelInc == 25

GroundDelayCancelInc == 10

Min(a, b) == IF a <= b THEN a ELSE b

Max(a, b) == IF a >= b THEN a ELSE b

\* A baseline argument: a float, or None
Absent == [has |-> FALSE, v |-> 0]

Prob(v) == [has |-> TRUE, v |-> v]

\* a bug: a baseline outside [0,1] discarded like an absent one
BaselineOrZeroRangeChecked(b) == IF b.has /\ b.v > 0 /\ b.v <= 100 THEN b.v ELSE 0

\* float(baseline_prob or 0.0)
BaselineOrZero(b) == IF b.has /\ b.v # 0 THEN b.v ELSE 0

\* The FAA record: None, or a dict whose "Delay" and Status."Reason" are texts
\* ("" stands for a missing key, which .get(..., "") reads as "")
NoFaa == [isdict |-> FALSE, Delay |-> "", Reason |-> ""]

FaaDict(d, r) == [isdict |-> TRUE, Delay |-> d, Reason |-> r]

PhaseKeywords == {"scheduled", "delayed", "on gate", "boarding"}

ReasonKeywords == {"arrival", "depart"}

\* "ground stop" in delay or "gs" in reason
IsGroundStop(faa_status) ==
    Contains("ground stop", Lower(faa_status.Delay)) \/ Contains("gs", Lower(faa_status.Reason))

\* "ground delay" in delay or "edct" in reason
IsGroundDelay(faa_status) ==
    Contains("ground delay", Lower(faa_status.Delay)) \/ Contains("edct", Lower(faa_status.Reason))

\* any(k in reason for k in ["arrival", "depart"])
IsArrDepReason(faa_status) ==
    \E k \in ReasonKeywords : Contains(k, Lower(faa_status.Reason))

\* a bug the first-match chain excludes: every matching tier adds its increment
DelayAirportStepCumulative(score, faa_status) ==
    IF ~faa_status.isdict THEN score
    ELSE LET s1 == IF IsGroundStop(faa_status) THEN Min(One, score + GroundStopDelayInc) ELSE score
             s2 == IF IsGroundDelay(faa_status) THEN Min(One, s1 + GroundDelayDelayInc) ELSE s1
         IN  IF IsArrDepReason(faa_status) THEN Min(One, s2 + ReasonDelayInc) ELSE s2

\* the isinstance(faa_status, dict) block of risk_score_delay
DelayAirportStep(score, faa_status) ==
    IF ~faa_status.isdict THEN score
    ELSE IF IsGroundStop(faa_status) THEN Min(One, score + GroundStopDelayInc)
    ELSE IF IsGroundDelay(faa_status) THEN Min(One, score + GroundDelayDelayInc)
    ELSE IF IsArrDepReason(faa_status) THEN Min(One, score + ReasonDelayInc)
    ELSE score

\* a bug: the delay function's third tier copied into the cancel function
CancelAirportStepThirdTier(score, faa_status) ==
    IF ~faa_status.isdict THEN score
    ELSE IF IsGroundStop(faa_status) THEN Min(One, score + GroundStopCancelInc)
    ELSE IF IsGroundDelay(faa_status) THEN Min(One, score + GroundDelayCancelInc)
    ELSE IF IsArrDepReason(faa_status) THEN Min(One, score + ReasonDelayInc)
    ELSE score

\* the isinstance(faa_status, dict) block of risk_score_cancel
CancelAirportStep(score, faa_status) ==
    IF ~faa_status.isdict THEN score
    ELSE IF IsGroundStop(faa_status) THEN Min(One, score + GroundStopCancelInc)
    ELSE IF IsGroundDelay(faa_status) THEN Min(One, score + GroundDelayCancelInc)
    ELSE score

\* a bug: the lower clamp forgotten
Clamp01NoFloor(score) == Min(One, score)

\* max(0.0, min(1.0, score))
Clamp01(score) == Max(0, Min(One, score))

risk_score_delay(baseline_prob, faa_status, live_phase) ==
    LET score0 == BaselineOrZero(baseline_prob)
        score1 == DelayAirportStep(score0, faa_status)
        score2 ==
            IF Truthy(live_phase) /\ \E k \in PhaseKeywords : Contains(k, Lower(live_phase))
            THEN Min(One, score1 + PhaseDelayInc)
            ELSE score1
    IN  Clamp01(score2)

risk_score_cancel(baseline_prob, faa_status, live_phase) ==
    LET score0 == BaselineOrZero(baseline_prob)
        score1 == CancelAirportStep(score0, faa_status)
        score2 ==
            IF Truthy(live_phase) /\ Contains("cancel", Lower(live_phase))
            THEN One
            ELSE score1
    IN  Clamp01(score2)

(***************************************************************************)
(* Inputs of the risk blender                                              *)
(***************************************************************************)
BaselineValues == {-50, -1, 0, 1, 20, 50, 70, 80, 90, 96, 100, 101, 150}

Baselines == {Absent} \cup {Prob(v) : v \in BaselineValues}

DelayTexts == {"", "Ground Stop", "GROUND DELAY", "Arrival delays"}

ReasonTexts == {"", "GS:snow", "EDCT issued", "Arrival volume", "departing", "wind"}

FaaStatuses == {NoFaa} \cup {FaaDict(d, r) : d \in DelayTexts, r \in ReasonTexts}

Phases == {NoneText, "", "active", "Scheduled", "DELAYED", "on gate", "Boarding", "Cancelled"}

(***************************************************************************)
(* Live lookups: faa_airport_status, aviationstack_flight                  *)
(***************************************************************************)
\* What requests.get(...) can come to: an exception, or a response with a
\* status and a body.  A body is not JSON ("invalid": r.json() raises), or
\* JSON of some shape; `data` is the shape of a dict body's "data" member.
NoBody == [kind |-> "invalid", Delay |-> "", Reason |-> "", data |-> "missing", flight_status |-> ""]

FaaBody(d, r) == [kind |-> "dict", Delay |-> d, Reason |-> r, data |-> "missing", flight_status |-> ""]

ShapedBody(k) == [kind |-> k, Delay |-> "", Reason |-> "", data |-> "missing", flight_status |-> ""]

AvsBody(dk, st) == [kind |-> "dict", Delay |-> "", Reason |-> "", data |-> dk, flight_status |-> st]

Raised(e) == [net |-> e, ok |-> FALSE, body |-> NoBody]

Response(ok, body) == [net |-> "response", ok |-> ok, body |-> body]

BodyKinds == {"invalid", "list", "str", "null"}

FaaOutcomes ==
    {Raised("ConnectionError"), Raised("Timeout")}
    \cup {Response(FALSE, ShapedBody("invalid")), Response(FALSE, FaaBody("Ground Stop", ""))}
    \cup {Response(TRUE, ShapedBody(k)) : k \in BodyKinds}
    \cup {Response(TRUE, FaaBody(d, r)) : d \in {"", "Ground Stop"}, r \in {"", "EDCT issued"}}

\* shapes of the "data" member: absent, null, [], a list of flight dicts, a
\* list of strings, a non-empty dict, a non-empty string
DataKinds == {"missing", "null", "empty", "flights", "strings", "dict", "text"}

AvsOutcomes ==
    {Raised("ConnectionError"), Raised("Timeout")}
    \cup {Response(FALSE, ShapedBody("invalid")), Response(FALSE, AvsBody("flights", "active"))}
    \cup {Response(TRUE, ShapedBody(k)) : k \in BodyKinds}
    \cup {Response(TRUE, AvsBody(dk, "")) : dk \in DataKinds \ {"flights"}}
    \cup {Response(TRUE, AvsBody("flights", st)) : st \in {"active", "cancelled"}}

\* Python values the lookups return
PyNone == [kind |-> "None", Delay |-> "", Reason |-> "", flight_status |-> ""]

PyValue(k, d, r, st) == [kind |-> k, Delay |-> d, Reason |-> r, flight_status |-> st]

\* r.json() of a body that parses
JsonOf(body) ==
    IF body.kind = "null" THEN PyNone
    ELSE PyValue(body.kind, body.Delay, body.Reason, "")

\* try: r = requests.get(...); if r.ok: return r.json() / except: return None
FaaResult(o) ==
    IF o.net # "response" THEN PyNone
    ELSE IF ~o.ok THEN PyNone
    ELSE IF o.body.kind = "invalid" THEN PyNone
    ELSE JsonOf(o.body)

\* try: ...; if r.ok: data = r.json().get("data") or []; return data[0] if data else None
AvsResult(o) ==
    IF o.net # "response" THEN PyNone
    ELSE IF ~o.ok THEN PyNone
    ELSE IF o.body.kind = "invalid" THEN PyNone              \* r.json() raises
    ELSE IF o.body.kind # "dict" THEN PyNone                 \* .get raises AttributeError
    ELSE IF o.body.data \in {"missing", "null", "empty"} THEN PyNone
    ELSE IF o.body.data = "dict" THEN PyNone                 \* data[0] raises KeyError
    ELSE IF o.body.data = "flights" THEN PyValue("dict", "", "", o.body.flight_status)
    ELSE PyValue("str", "", "", "")                          \* data[0] of a list of strings, or of a string

IataCodes == {"", "ric", "JFK"}

FlightNumbers == {"", "dl123"}

ApiKeys == {"", "k3y"}

(***************************************************************************)
(* Uploaded files                                                          *)
(***************************************************************************)
MaxRows == 3

\* all sequences over S of length 1..n
RECURSIVE SeqsUpTo(_, _)
SeqsUpTo(S, n) ==
    IF n = 0 THEN {}
    ELSE LET shorter == SeqsUpTo(S, n - 1)
         IN  {<<x>> : x \in S} \cup shorter \cup {Append(q, x) : q \in shorter, x \in S}

\* the layout of the inline sample, with a cancellation code; records with
\* flights, and records with none
CodeHeader == <<"carrier_name", "airport_name", "arr_flights", "arr_del15", "arr_delay", "cancellation_code">>

CodeRows ==
    {<<"Delta", "Richmond", t[1], t[2], t[3], k>> :
        t \in {<<"2", "1", "7.5">>, <<"0", "0", "0.0">>},
        k \in {"", "A", "B"}}
    \cup {<<"United", "Richmond", t[1], t[2], t[3], k>> :
        t \in {<<"2", "1", "7.5">>, <<"0", "0", "0.0">>},
        k \in {"A", "B"}}
    \cup {<<"", "Richmond", "2", "1", "7.5", "A">>}

\* another layout: other candidate names, to be standardised, with a
\* cancellation count; records with a negative, a non-numeric and a missing field
CountHeader == <<"Carrier", " Airport ", "Flights", "Late Flights", "Arr-Delay", "Cancelled">>

CountRows ==
    {<<"Delta", "Richmond", "1", "1", "5.0", k>> : k \in {"0", "1", "3", "0.5", "x"}}
    \cup {<<"Delta", "Richmond", t[1], t[2], t[3], "1">> :
            t \in {<<"-1", "0", "5.0">>, <<"x", "0", "5.0">>, <<"1", "0", "">>}}

\* a free-text reason column; records with and without a flights count
TextHeader == <<"carrier_name", "airport_name", "arr_flights", "arr_del15", "arr_delay", "cancellation_reason">>

TextRows ==
    {<<"Delta", "Richmond", t[1], t[2], t[3], k>> :
        t \in {<<"1", "0", "5.0">>, <<"", "1", "5.0">>},
        k \in {"", "fog", "crew"}}

\* layouts in which one required column has a name that is no candidate
BrokenHeaders ==
    {<<"airline", "airport_name", "arr_flights", "arr_del15", "arr_delay">>,
     <<"carrier_name", "station", "arr_flights", "arr_del15", "arr_delay">>,
     <<"carrier_name", "airport_name", "count", "arr_del15", "arr_delay">>,
     <<"carrier_name", "airport_name", "arr_flights", "late", "arr_delay">>,
     <<"carrier_name", "airport_name", "arr_flights", "arr_del15", "minutes">>}

BrokenRows == {<<"Delta", "Richmond", "1", "0", "5.0">>, <<"United", "Richmond", "2", "1", "7.5">>}

Uploads ==
    {File(CodeHeader, rows) : rows \in SeqsUpTo(CodeRows, MaxRows)}
    \cup {File(CountHeader, rows) : rows \in SeqsUpTo(CountRows, MaxRows)}
    \cup {File(TextHeader, rows) : rows \in SeqsUpTo(TextRows, MaxRows)}
    \cup {File(h, rows) : h \in BrokenHeaders, rows \in SeqsUpTo(BrokenRows, MaxRows)}

VARIABLES
    blend_baseline,   \* baseline_prob handed to the two scoring functions
    blend_faa,        \* faa_status handed to them
    blend_phase,      \* live_phase handed to them
    risk_delay,       \* risk_score_delay(...) of the last evaluation
    risk_cancel,      \* risk_score_cancel(...) of the last evaluation
    blend_calls,      \* number of evaluations so far
    arrival_iata,     \* argument of faa_airport_status
    flight_num,       \* arguments of aviationstack_flight
    aviation_key,
    live_pc,          \* "start", "faa_wait", "faa_done", "avs_wait", "done"
    http_log,         \* the requests issued, in order
    faa_outcome,      \* what the FAA request came to
    avs_outcome,      \* what the aviationstack request came to
    faa,              \* value returned by faa_airport_status
    live_info,        \* value returned by aviationstack_flight
    uploaded,         \* the file of the upload widget, or NoFile
    pc,               \* position of the script run
    columns,          \* raw.columns
    raw,              \* the loaded frame, a sequence of rows
    cols,             \* the resolved column names
    df,               \* the filtered frame
    grouped,          \* the carrier x airport summary
    reason_summary,   \* the modal reason of every pair of raw
    sel_carrier,      \* the pickers' values
    sel_airport,
    sel,              \* the summary rows of the selection
    shown,            \* the metrics displayed
    notice,           \* the warning displayed before st.stop()
    error             \* the exception that ended the run, or ""

blend_vars == <<blend_baseline, blend_faa, blend_phase, risk_delay, risk_cancel, blend_calls>>

live_vars == <<arrival_iata, flight_num, aviation_key, live_pc, http_log, faa_outcome, avs_outcome, faa, live_info>>

pipe_vars == <<uploaded, pc, columns, raw, cols, df, grouped, reason_summary,
               sel_carrier, sel_airport, sel, shown, notice, error>>

vars == <<blend_vars, live_vars, pipe_vars>>

NoMetrics == [prob_delay |-> Ratio(0, 1), prob_cancel |-> Ratio(0, 1), avg_d |-> Ratio(0, 1),
              tot |-> 0, dly |-> 0, cnl |-> 0, top_reason |-> ""]

PipeStart ==
    /\ pc = "load"
    /\ columns = {}
    /\ raw = <<>>
    /\ cols = NoColumns
    /\ df = <<>>
    /\ grouped = <<>>
    /\ reason_summary = <<>>
    /\ sel_carrier = NoneText
    /\ sel_airport = NoneText
    /\ sel = <<>>
    /\ shown = NoMetrics
    /\ notice = ""
    /\ error = ""

PipeIdle == uploaded = NoFile /\ PipeStart

NoOutcome == Raised("none")

BlendIdle ==
    /\ blend_baseline = Absent
    /\ blend_faa = NoFaa
    /\ blend_phase = NoneText
    /\ risk_delay = 0
    /\ risk_cancel = 0
    /\ blend_calls = 0

LiveIdle ==
    /\ arrival_iata = ""
    /\ flight_num = ""
    /\ aviation_key = ""
    /\ live_pc = "start"
    /\ http_log = <<>>
    /\ faa_outcome = NoOutcome
    /\ avs_outcome = NoOutcome
    /\ faa = PyNone
    /\ live_info = PyNone

(***************************************************************************)
(* The risk blender applied to drawn arguments                             *)
(***************************************************************************)
MaxEvals == 2

BlendInputs ==
    /\ blend_baseline \in Baselines
    /\ blend_faa \in FaaStatuses
    /\ blend_phase \in Phases
    /\ risk_delay = 0
    /\ risk_cancel = 0
    /\ blend_calls = 0

\* k3 block: both scores from one set of arguments
Blend(b, f, p) ==
    /\ blend_baseline' = b
    /\ blend_faa' = f
    /\ blend_phase' = p
    /\ risk_delay' = risk_score_delay(b, f, p)
    /\ risk_cancel' = risk_score_cancel(b, f, p)
    /\ blend_calls' = blend_calls + 1

\* First evaluation of the drawn arguments
EvalRisk ==
    /\ blend_calls = 0
    /\ Blend(blend_baseline, blend_faa, blend_phase)
    /\ UNCHANGED <<live_vars, pipe_vars>>

\* Re-evaluation with another baseline (another pair selected) under the same
\* live signals
EvalRiskRebased ==
    /\ blend_calls \in 1..(MaxEvals - 1)
    /\ \E b \in Baselines : Blend(b, blend_faa, blend_phase)
    /\ UNCHANGED <<live_vars, pipe_vars>>

RiskInit == BlendInputs /\ LiveIdle /\ PipeIdle

RiskNext == EvalRisk \/ EvalRiskRebased

SpecRisk == RiskInit /\ [][RiskNext]_vars

(***************************************************************************)
(* The live lookups applied to drawn arguments and outcomes                *)
(***************************************************************************)
LiveInputs ==
    /\ arrival_iata \in IataCodes
    /\ flight_num \in FlightNumbers
    /\ aviation_key \in ApiKeys
    /\ live_pc = "start"
    /\ http_log = <<>>
    /\ faa_outcome = NoOutcome
    /\ avs_outcome = NoOutcome
    /\ faa = PyNone
    /\ live_info = PyNone

\* faa_airport_status up to the request: `if not iata_code: return None`
FaaCall ==
    /\ live_pc = "start"
    /\ IF Len(arrival_iata) = 0
       THEN /\ faa' = PyNone
            /\ live_pc' = "faa_done"
            /\ UNCHANGED http_log
       ELSE /\ http_log' = Append(http_log, [api |-> "faa", arg |-> Upper(arrival_iata)])
            /\ live_pc' = "faa_wait"
            /\ UNCHANGED faa
    /\ UNCHANGED <<arrival_iata, flight_num, aviation_key, faa_outcome, avs_outcome, live_info>>
    /\ UNCHANGED <<blend_vars, pipe_vars>>

\* faa_airport_status from the request's outcome to its return
FaaRespond ==
    /\ live_pc = "faa_wait"
    /\ \E o \in FaaOutcomes :
        /\ faa_outcome' = o
        /\ faa' = FaaResult(o)
    /\ live_pc' = "faa_done"
    /\ UNCHANGED <<arrival_iata, flight_num, aviation_key, http_log, avs_outcome, live_info>>
    /\ UNCHANGED <<blend_vars, pipe_vars>>

\* aviationstack_flight up to the request: `if not (flight_number and api_key): return None`
AvsCall ==
    /\ live_pc = "faa_done"
    /\ IF Len(flight_num) = 0 \/ Len(aviation_key) = 0
       THEN /\ live_info' = PyNone
            /\ live_pc' = "done"
            /\ UNCHANGED http_log
       ELSE /\ http_log' = Append(http_log, [api |-> "aviationstack", arg |-> Upper(flight_num)])
            /\ live_pc' = "avs_wait"
            /\ UNCHANGED live_info
    /\ UNCHANGED <<arrival_iata, flight_num, aviation_key, faa_outcome, avs_outcome, faa>>
    /\ UNCHANGED <<blend_vars, pipe_vars>>

\* aviationstack_flight from the request's outcome to its return
AvsRespond ==
    /\ live_pc = "avs_wait"
    /\ \E o \in AvsOutcomes :
        /\ avs_outcome' = o
        /\ live_info' = AvsResult(o)
    /\ live_pc' = "done"
    /\ UNCHANGED <<arrival_iata, flight_num, aviation_key, http_log, faa_outcome, faa>>
    /\ UNCHANGED <<blend_vars, pipe_vars>>

LiveInit == LiveInputs /\ BlendIdle /\ PipeIdle

LiveNext == FaaCall \/ FaaRespond \/ AvsCall \/ AvsRespond

SpecLive == LiveInit /\ [][LiveNext]_vars

(***************************************************************************)
(* The script run, from the upload to the comparison charts                *)
(***************************************************************************)
\* load_csv_auto: the upload if there is one; data/Airline_Delay_Cause.csv is
\* taken to be absent, so the inline sample otherwise
Load ==
    /\ pc = "load"
    /\ LET file == IF uploaded.present THEN uploaded ELSE SampleFile
       IN  /\ raw' = ReadCsv(file)
           /\ columns' = ColumnsOf(file)
    /\ pc' = "resolve"
    /\ UNCHANGED <<uploaded, cols, df, grouped, reason_summary, sel_carrier, sel_airport,
                   sel, shown, notice, error>>
    /\ UNCHANGED <<blend_vars, live_vars>>

\* lines 210-227
Resolve ==
    /\ pc = "resolve"
    /\ cols' = ResolveColumns(columns)
    /\ pc' = "normalize"
    /\ UNCHANGED <<uploaded, columns, raw, df, grouped, reason_summary, sel_carrier, sel_airport,
                   sel, shown, notice, error>>
    /\ UNCHANGED <<blend_vars, live_vars>>

\* lines 231-244
Normalize ==
    /\ pc = "normalize"
    /\ raw' = WithCancelColumns(raw, columns, cols)
    /\ columns' = columns \cup {"_cancel_flag", "_cancel_reason"}
    /\ pc' = "cleanup"
    /\ UNCHANGED <<uploaded, cols, df, grouped, reason_summary, sel_carrier, sel_airport,
                   sel, shown, notice, error>>
    /\ UNCHANGED <<blend_vars, live_vars>>

\* lines 247-249
Cleanup ==
    /\ pc = "cleanup"
    /\ raw' = WithNumericColumns(raw, columns, cols)
    /\ pc' = "filter"
    /\ UNCHANGED <<uploaded, columns, cols, df, grouped, reason_summary, sel_carrier, sel_airport,
                   sel, shown, notice, error>>
    /\ UNCHANGED <<blend_vars, live_vars>>

\* lines 251-252: dropna(subset=...) raises KeyError for a name that is no column
Filter ==
    /\ pc = "filter"
    /\ IF RequiredColumns(cols) \subseteq columns
       THEN /\ df' = FilterRows(raw, cols)
            /\ pc' = "aggregate"
            /\ UNCHANGED error
       ELSE /\ pc' = "crashed"
            /\ error' = "KeyError"
            /\ UNCHANGED df
    /\ UNCHANGED <<uploaded, columns, raw, cols, grouped, reason_summary, sel_carrier, sel_airport,
                   sel, shown, notice>>
    /\ UNCHANGED <<blend_vars, live_vars>>

\* lines 255-265
AggregateStep ==
    /\ pc = "aggregate"
    /\ grouped' = Aggregate(df, cols)
    /\ pc' = "reasons"
    /\ UNCHANGED <<uploaded, columns, raw, cols, df, reason_summary, sel_carrier, sel_airport,
                   sel, shown, notice, error>>
    /\ UNCHANGED <<blend_vars, live_vars>>

\* lines 268-273
ReasonStep ==
    /\ pc = "reasons"
    /\ reason_summary' = ReasonSummary(raw, cols)
    /\ grouped' = MergeReasons(grouped, ReasonSummary(raw, cols))
    /\ pc' = "pick"
    /\ UNCHANGED <<uploaded, columns, raw, cols, df, sel_carrier, sel_airport,
                   sel, shown, notice, error>>
    /\ UNCHANGED <<blend_vars, live_vars>>

all_carriers == {grouped[k].carrier : k \in 1..Len(grouped)}

all_airports == {grouped[k].airport : k \in 1..Len(grouped)}

airports_for_carrier(c) == {grouped[k].airport : k \in {j \in 1..Len(grouped) : grouped[j].carrier = c}}

carriers_for_airport(a) == {grouped[k].carrier : k \in {j \in 1..Len(grouped) : grouped[j].airport = a}}

\* a selectbox: any of its options, None when it has none
Selectbox(options) == IF options = {} THEN {NoneText} ELSE options

PickUnchanged ==
    /\ UNCHANGED <<uploaded, columns, raw, cols, df, grouped, reason_summary, sel, shown, error>>
    /\ UNCHANGED <<blend_vars, live_vars>>

\* lines 290-312: order "Carrier -> Airport"
PickCarrierFirst ==
    /\ pc = "pick"
    /\ \E c \in Selectbox(all_carriers) :
        /\ sel_carrier' = c
        /\ IF airports_for_carrier(c) = {}
           THEN /\ notice' = "No airports found for this carrier in your dataset."
                /\ pc' = "stopped"
                /\ UNCHANGED sel_airport
           ELSE /\ \E a \in airports_for_carrier(c) : sel_airport' = a
                /\ pc' = "locate"
                /\ UNCHANGED notice
    /\ PickUnchanged

\* lines 314-336: order "Airport -> Carrier"
PickAirportFirst ==
    /\ pc = "pick"
    /\ \E a \in Selectbox(all_airports) :
        /\ sel_airport' = a
        /\ IF carriers_for_airport(a) = {}
           THEN /\ notice' = "No carriers found for this airport in your dataset."
                /\ pc' = "stopped"
                /\ UNCHANGED sel_carrier
           ELSE /\ \E c \in carriers_for_airport(a) : sel_carrier' = c
                /\ pc' = "locate"
                /\ UNCHANGED notice
    /\ PickUnchanged

\* lines 339-345
Locate ==
    /\ pc = "locate"
    /\ LET found == SelectRows(grouped, [k \in 1..Len(grouped) |->
                        grouped[k].carrier = sel_carrier /\ grouped[k].airport = sel_airport])
       IN  /\ sel' = found
           /\ IF Len(found) = 0
              THEN /\ notice' = "No data for that carrier-airport combination."
                   /\ pc' = "stopped"
              ELSE /\ pc' = "metrics"
                   /\ UNCHANGED notice
    /\ UNCHANGED <<uploaded, columns, raw, cols, df, grouped, reason_summary, sel_carrier,
                   sel_airport, shown, error>>
    /\ UNCHANGED <<blend_vars, live_vars>>

\* lines 349-363
Metrics ==
    /\ pc = "metrics"
    /\ shown' = [prob_delay  |-> Ratio(100 * sel[1].delay_probability.num, sel[1].delay_probability.den),
                 prob_cancel |-> Ratio(100 * sel[1].cancel_probability.num, sel[1].cancel_probability.den),
                 avg_d       |-> sel[1].avg_delay,
                 tot         |-> AsInt(Num(sel[1].total_flights)),
                 dly         |-> AsInt(Num(sel[1].delayed_flights)),
                 cnl         |-> sel[1].canceled_flights,
                 top_reason  |-> sel[1].top_cancel_reason]
    /\ pc' = "charts"
    /\ UNCHANGED <<uploaded, columns, raw, cols, df, grouped, reason_summary, sel_carrier,
                   sel_airport, sel, notice, error>>
    /\ UNCHANGED <<blend_vars, live_vars>>

\* lines 377-378: peers_carrier is read and was never assigned
Charts ==
    /\ pc = "charts"
    /\ pc' = "crashed"
    /\ error' = "NameError"
    /\ UNCHANGED <<uploaded, columns, raw, cols, df, grouped, reason_summary, sel_carrier,
                   sel_airport, sel, shown, notice>>
    /\ UNCHANGED <<blend_vars, live_vars>>

Init == uploaded \in Uploads \cup {NoFile} /\ PipeStart /\ BlendIdle /\ LiveIdle

Next ==
    \/ Load
    \/ Resolve
    \/ Normalize
    \/ Cleanup
    \/ Filter
    \/ AggregateStep
    \/ ReasonStep
    \/ PickCarrierFirst
    \/ PickAirportFirst
    \/ Locate
    \/ Metrics
    \/ Charts

Spec == Init /\ [][Next]_vars

(***************************************************************************)
(* Properties of the risk blender (SpecRisk)                               *)
(***************************************************************************)
Evaluated == blend_calls >= 1

PhaseHasCancel == Truthy(blend_phase) /\ Contains("cancel", Lower(blend_phase))

PhaseHasDelayKeyword ==
    Truthy(blend_phase) /\ \E k \in {"scheduled", "delayed", "on gate", "boarding"} : Contains(k, Lower(blend_phase))

\* the baseline the contract speaks of: a probability in [0,1], or absent (read as 0.0)
ContractBaseline == ~blend_baseline.has \/ blend_baseline.v \in 0..100

BaselineValue == IF blend_baseline.has THEN blend_baseline.v ELSE 0

StatusDelayText == Lower(blend_faa.Delay)

StatusReasonText == Lower(blend_faa.Reason)

\* the status record is present and its delay text contains "ground stop" or
\* its reason contains "gs"
StatusGroundStop ==
    blend_faa.isdict /\ (Contains("ground stop", StatusDelayText) \/ Contains("gs", StatusReasonText))

\* ... its delay text contains "ground delay" or its reason contains "edct"
StatusGroundDelay ==
    blend_faa.isdict /\ (Contains("ground delay", StatusDelayText) \/ Contains("edct", StatusReasonText))

\* ... its reason contains "arrival" or "depart"
StatusArrivalOrDeparture ==
    blend_faa.isdict /\ (Contains("arrival", StatusReasonText) \/ Contains("depart", StatusReasonText))

\* C1: whatever the baseline (absent, negative, in [0,1], above 1), the airport
\* status and the phase, both risk scores lie in [0, 1].
RiskScoresInUnitInterval ==
    Evaluated => /\ risk_delay >= 0 /\ risk_delay <= 100
                 /\ risk_cancel >= 0 /\ risk_cancel <= 100

\* C1 witness: a baseline whose sum with the ground-stop increment exceeds 1
\* has been scored, and the score is exactly 1.
RiskClampedWitness ==
    /\ Evaluated
    /\ blend_baseline = Prob(90)
    /\ blend_faa.isdict /\ blend_faa.Delay = "Ground Stop"
    /\ blend_phase = "Scheduled"
    /\ risk_delay = 100 /\ risk_cancel = 100

\* C2: re-scoring under the same live signals with a baseline that is not
\* smaller never lowers either score.
RiskMonotoneInBaseline ==
    [][(/\ Evaluated
        /\ blend_faa' = blend_faa
        /\ blend_phase' = blend_phase
        /\ blend_baseline.has /\ blend_baseline'.has
        /\ blend_baseline.v <= blend_baseline'.v)
       => (risk_delay <= risk_delay' /\ risk_cancel <= risk_cancel')]_vars

\* C2 witness: a second scoring has happened, with a score strictly inside (0,1)
RiskRescoredWitness ==
    /\ blend_calls = 2
    /\ blend_baseline = Prob(50)
    /\ blend_faa.isdict /\ blend_faa.Reason = "EDCT issued" /\ blend_faa.Delay = ""
    /\ risk_delay = 70 /\ risk_cancel = 60

\* C7: a phase containing "cancel" (any case) forces the cancel score to
\* exactly 1.0 for every baseline and status; otherwise, for a baseline in
\* [0,1] or absent (read as 0.0), the score is min(1, b + 0.25) under a ground
\* stop, else min(1, b + 0.10) under a ground delay, else b: no third tier.
CancelOverrideAndTiers ==
    Evaluated =>
        IF PhaseHasCancel THEN risk_cancel = 100
        ELSE ContractBaseline =>
             risk_cancel =
                IF StatusGroundStop THEN Min(100, BaselineValue + 25)
                ELSE IF StatusGroundDelay THEN Min(100, BaselineValue + 10)
                ELSE BaselineValue

\* C7 witness: baseline 0.01 with phase "Cancelled" has been scored 1.0
CancelForcedWitness ==
    /\ Evaluated
    /\ blend_baseline = Prob(1)
    /\ blend_phase = "Cancelled"
    /\ ~blend_faa.isdict
    /\ risk_cancel = 100

\* C9: for a baseline b in [0,1] the delay score is min(1, b + A + P): A is the
\* increment of the first matching airport tier only (0.35, else 0.20, else
\* 0.10, else 0), P is 0.05 for a phase keyword, else 0; so clamping once at
\* the end equals the code's clamping after each step.  b = 0.20 under a
\* ground stop with no phase gives 0.55.
DelayFirstMatchSum ==
    LET A == IF StatusGroundStop THEN 35
             ELSE IF StatusGroundDelay THEN 20
             ELSE IF StatusArrivalOrDeparture THEN 10
             ELSE 0
        P == IF PhaseHasDelayKeyword THEN 5 ELSE 0
    IN  (Evaluated /\ blend_baseline.has /\ blend_baseline.v \in 0..100) =>
            /\ risk_delay = Min(100, blend_baseline.v + A + P)
            /\ (blend_baseline.v = 20 /\ blend_faa.isdict /\ Contains("ground stop", StatusDelayText)
                /\ ~Truthy(blend_phase)) => risk_delay = 55

\* C9 witness: b = 0.20, a status matching the first and the second tier at
\* once, no phase: scored 0.55
DelayFirstTierWitness ==
    /\ Evaluated
    /\ blend_baseline = Prob(20)
    /\ blend_faa.isdict /\ blend_faa.Delay = "Ground Stop" /\ blend_faa.Reason = "EDCT issued"
    /\ blend_phase = NoneText
    /\ risk_delay = 55

(***************************************************************************)
(* Properties of the live lookups (SpecLive)                               *)
(***************************************************************************)
\* outcomes the claim lists for the FAA lookup: exception, timeout, non-success
\* status, a body that is not JSON or is JSON of another shape than a record
FaaFailure(o) == o.net # "response" \/ ~o.ok \/ o.body.kind # "dict"

\* the same for the flight lookup, whose expected body is a record with a
\* list of flight records under "data"; an empty data list is listed too
AvsFailure(o) == o.net # "response" \/ ~o.ok \/ o.body.kind # "dict" \/ o.body.data # "flights"

RequestsTo(api) == Cardinality({i \in 1..Len(http_log) : http_log[i].api = api})

\* C6: on every listed outcome of its request each lookup returns None; each
\* call issues at most one request; aviationstack_flight issues none when the
\* flight number or the credential is empty.
LookupFailureTransparent ==
    /\ (live_pc \in {"faa_done", "avs_wait", "done"} /\ FaaFailure(faa_outcome)) => faa = PyNone
    /\ (live_pc = "done" /\ AvsFailure(avs_outcome)) => live_info = PyNone
    /\ RequestsTo("faa") <= 1
    /\ RequestsTo("aviationstack") <= 1
    /\ (Len(flight_num) = 0 \/ Len(aviation_key) = 0) => RequestsTo("aviationstack") = 0

(***************************************************************************)
(* Properties of the script run (Spec)                                     *)
(***************************************************************************)
Crashed(e) == pc = "crashed" /\ error = e

Filtered == pc \in {"aggregate", "reasons", "pick", "locate", "metrics", "charts", "stopped"} \/ Crashed("NameError")

Aggregated == pc \in {"reasons", "pick", "locate", "metrics", "charts", "stopped"} \/ Crashed("NameError")

Summarised == pc \in {"pick", "locate", "metrics", "charts", "stopped"} \/ Crashed("NameError")

IsCount(x) == ~x.nan /\ x.v >= 0 /\ x.v % 10 = 0

\* a record of the cleaned frame that is as the Flight Record data model
\* describes it
ConformingRecord(r) ==
    /\ IsCount(r[cols.arr_flights_col])
    /\ IsCount(r[cols.arr_del15_col])
    /\ r[cols.arr_del15_col].v <= r[cols.arr_flights_col].v
    /\ cols.cancel_col # NoneText => IsCount(ToNumeric(r[cols.cancel_col]))

\* C3: in a summary built from conforming records, delayed_flights and
\* cancelled_flights are at most total_flights, so both probabilities lie in [0, 1].
RatesWithinTotals ==
    (Aggregated /\ \A i \in 1..Len(raw) : ConformingRecord(raw[i])) =>
        \A k \in 1..Len(grouped) :
            /\ grouped[k].delayed_flights <= grouped[k].total_flights
            /\ 10 * grouped[k].canceled_flights <= grouped[k].total_flights
            /\ 0 <= grouped[k].delay_probability.num
            /\ grouped[k].delay_probability.num <= grouped[k].delay_probability.den
            /\ 0 <= grouped[k].cancel_probability.num
            /\ grouped[k].cancel_probability.num <= grouped[k].cancel_probability.den

PairOf(r) == <<r[cols.carrier_col], r[cols.airport_col]>>

SummaryPairs == {<<grouped[k].carrier, grouped[k].airport>> : k \in 1..Len(grouped)}

ReasonPairs == {<<reason_summary[k].carrier, reason_summary[k].airport>> : k \in 1..Len(reason_summary)}

\* a record of the cleaned frame that the numeric aggregation cannot use: a
\* flights count that is missing, no number, zero or negative, or another
\* numeric field missing
Unusable(r) ==
    \/ r[cols.arr_flights_col].nan
    \/ r[cols.arr_flights_col].v <= 0
    \/ r[cols.arr_del15_col].nan
    \/ r[cols.arr_delay_col].nan

HasPair(r) == ~IsNull(r[cols.carrier_col]) /\ ~IsNull(r[cols.airport_col])

\* C4: every summary row has total_flights > 0 (no division by zero), and a
\* pair all of whose records are unusable has no summary row although the
\* modal-reason grouping over the raw records has it.
SummaryRowsHaveFlights ==
    /\ Aggregated =>
        \A k \in 1..Len(grouped) :
            /\ grouped[k].total_flights > 0
            /\ grouped[k].delay_probability.den > 0
            /\ grouped[k].cancel_probability.den > 0
    /\ Summarised =>
        \A i \in 1..Len(raw) :
            (/\ HasPair(raw[i])
             /\ \A j \in 1..Len(raw) : PairOf(raw[j]) = PairOf(raw[i]) => Unusable(raw[j]))
            => (PairOf(raw[i]) \notin SummaryPairs /\ PairOf(raw[i]) \in ReasonPairs)

\* C4 witness: the summary is built, it has a row, and a pair of the reason
\* grouping whose records all have a zero flights count is missing from it
VanishedPairWitness ==
    /\ pc = "pick"
    /\ Len(grouped) = 1
    /\ <<"United", "Richmond">> \in ReasonPairs \ SummaryPairs
    /\ \A i \in 1..Len(raw) :
            raw[i]["carrier_name"] = "United" => raw[i]["arr_flights"] = Num(0)

\* the file is loaded and a required logical column has none of its candidate
\* names among the columns
RequiredColumnUnresolved ==
    /\ pc # "load"
    /\ \E cand \in {CARRIER_CANDIDATES, AIRPORT_CANDIDATES, FLIGHTS_CANDIDATES, DEL15_CANDIDATES, DELAY_CANDIDATES} :
        resolve_one(columns, cand) = NoneText

\* C5: with a required column unresolved the run goes on with the default
\* name and an empty working set, to an empty summary and the no-data stop;
\* no exception ends it.
UnresolvedColumnYieldsEmpty ==
    RequiredColumnUnresolved =>
        /\ pc # "crashed"
        /\ error = ""
        /\ Filtered => df = <<>>
        /\ Aggregated => grouped = <<>>

RawReasonCount(pair, reason) ==
    Cardinality({i \in 1..Len(raw) : HasPair(raw[i]) /\ PairOf(raw[i]) = pair /\ raw[i]["_cancel_reason"] = reason})

KeptReasonCount(pair, reason) ==
    Cardinality({i \in 1..Len(df) : PairOf(df[i]) = pair /\ df[i]["_cancel_reason"] = reason})

\* C8: the top_cancel_reason of a summary row is a reason of maximal
\* frequency among all raw records of its pair, the records excluded from the
\* numeric aggregation counted like the others.
ExcludedRecordsCountInMode ==
    Summarised =>
        \A k \in 1..Len(grouped) :
            LET pair == <<grouped[k].carrier, grouped[k].airport>>
            IN  /\ RawReasonCount(pair, grouped[k].top_cancel_reason) > 0
                /\ \A i \in 1..Len(raw) :
                        (HasPair(raw[i]) /\ PairOf(raw[i]) = pair) =>
                            RawReasonCount(pair, raw[i]["_cancel_reason"])
                                <= RawReasonCount(pair, grouped[k].top_cancel_reason)

\* C8 witness: a summary row whose top reason is carried by excluded records
\* only, while the one kept record of the pair has another reason
ExcludedDecidesWitness ==
    /\ pc = "pick"
    /\ \E k \in 1..Len(grouped) :
        LET pair == <<grouped[k].carrier, grouped[k].airport>>
        IN  /\ KeptReasonCount(pair, grouped[k].top_cancel_reason) = 0
            /\ RawReasonCount(pair, grouped[k].top_cancel_reason) = 2
            /\ \E i \in 1..Len(df) : PairOf(df[i]) = pair

MaxFrequency(pair, reason) ==
    /\ RawReasonCount(pair, reason) > 0
    /\ \A i \in 1..Len(raw) :
        (HasPair(raw[i]) /\ PairOf(raw[i]) = pair) =>
            RawReasonCount(pair, raw[i]["_cancel_reason"]) <= RawReasonCount(pair, reason)

\* the reason of maximal frequency that occurs first in row order
FirstInRowOrder(pair, reason) ==
    \E i \in 1..Len(raw) :
        /\ HasPair(raw[i]) /\ PairOf(raw[i]) = pair
        /\ raw[i]["_cancel_reason"] = reason
        /\ MaxFrequency(pair, reason)
        /\ \A j \in 1..(i - 1) :
            (HasPair(raw[j]) /\ PairOf(raw[j]) = pair) => ~MaxFrequency(pair, raw[j]["_cancel_reason"])

Normalised == pc \notin {"load", "resolve", "normalize"}

\* a numeric/boolean cancellation-count column was resolved among the columns
CancelCountPresent == cols.cancel_col # NoneText /\ cols.cancel_col \in columns

\* the value of a cancellation-count cell coerced to a number, an invalid or
\* missing value counting as 0, in tenths
CoercedCount(cell) ==
    LET x == ToNumeric(cell) IN IF x.nan THEN 0 ELSE x.v

\* C11: with a cancellation-count column present, the cancellation flag of
\* every record is binary: 1 if the coerced column value is non-zero and 0
\* otherwise, so that 0.5 and 3 both yield 1 and no record contributes more
\* than 1 to a cancelled-flights sum.
CancelFlagBinary ==
    (Normalised /\ CancelCountPresent) =>
        \A i \in 1..Len(raw) :
            /\ raw[i]["_cancel_flag"] \in {0, 1}
            /\ raw[i]["_cancel_flag"] = 1 <=> CoercedCount(raw[i][cols.cancel_col]) # 0

\* the script run has passed the selection with an aggregate row for the
\* selected (carrier, airport) pair
SelectedRowFound == Len(sel) > 0 /\ pc \notin {"locate", "pick"}

\* C12: in a run in which the selected pair has an aggregate row, execution
\* goes from the metrics through the comparison charts and trends to the
\* live-tracking section without raising: no name is read before it is
\* assigned, so the run is never ended by a NameError before the risk scores
\* can be computed from the row's baselines.
SelectedRowRunReachesLive ==
    SelectedRowFound => ~Crashed("NameError")

====
